---- MODULE Spec2Model ----
(***************************************************************************)
(* A model of dbus_python_client_gen/_invokers.py: the three builders      *)
(* (prop_builder, method_builder, dbus_python_invoker_builder) and the     *)
(* invokers they generate (the dbus_func closures).                        *)
(*                                                                         *)
(* An xml Element is a record [tag, attrib, children]; attrib is a         *)
(* function whose DOMAIN is the set of attributes that are present, so     *)
(* that e.attrib['k'] on a missing attribute is a KeyError.  A namespace   *)
(* is a function from the names assigned so far to their values.           *)
(***************************************************************************)
EXTENDS Integers, Sequences, FiniteSets, TLC

VARIABLES
    registry,       \* what into_dbus_python.xformers returns: "function" or "list"
    spec,           \* the interface Element handed to the builder
    namespace,      \* the namespace handed to dbus_python_invoker_builder's builder
    methods_ns,     \* the namespace method_builder's builder fills
    props_ns,       \* the namespace prop_builder's builder fills
    pc,             \* "start", "built" (the builder returned) or "failed" (it raised)
    raised,         \* the exception the builder raised, or NoError
    last_call,      \* the last invocation of a generated invoker, or NoCall
    mismatch_seen   \* TRUE once an invocation raised DPClientRuntimeError

vars == <<registry, spec, namespace, methods_ns, props_ns, pc, raised,
          last_call, mismatch_seen>>

(***************************************************************************)
(* Bounds of the model.                                                    *)
(***************************************************************************)
MaxArgs == 2
MaxProps == 2
MaxMethods == 2

(***************************************************************************)
(* Exceptions.                                                             *)
(***************************************************************************)
NoError == "none"
DPClientGenerationError == "DPClientGenerationError"
DPClientRuntimeError == "DPClientRuntimeError"
KeyError == "KeyError"
TypeError == "TypeError"
AttributeError == "AttributeError"
EncoderError == "IntoDPError"
DBusException == "DBusException"

NoCall == [kind |-> "none"]
PROPERTIES_IFACE == "org.freedesktop.DBus.Properties"

(***************************************************************************)
(* Elements.                                                               *)
(***************************************************************************)
NoAttr == "<no attribute>"

\* The attrib of an element: the pairs <<key, value>> whose value is given.
Attrs(pairs) ==
    LET given == {p \in pairs : p[2] # NoAttr}
    IN  [k \in {p[1] : p \in given} |-> (CHOOSE p \in given : p[1] = k)[2]]

Element(tag, attrib, children) ==
    [tag |-> tag, attrib |-> attrib, children |-> children]

HasAttr(e, k) == k \in DOMAIN e.attrib

\* Element.findall('./<tag>')
findall(e, tag) == SelectSeq(e.children, LAMBDA c : c.tag = tag)

\* Element.findall('./arg[@direction="in"]')
findall_inargs(e) ==
    SelectSeq(e.children,
              LAMBDA c : /\ c.tag = "arg"
                         /\ HasAttr(c, "direction")
                         /\ c.attrib["direction"] = "in")

EmptyNs == [k \in {} |-> NoError]

\* namespace.setdefault(k, v): the first value assigned under k is kept
Put_keep_first(ns, k, v) ==
    [x \in DOMAIN ns \cup {k} |-> IF x \in DOMAIN ns THEN ns[x] ELSE v]

\* namespace[k] = v
Put(ns, k, v) == [x \in DOMAIN ns \cup {k} |-> IF x = k THEN v ELSE ns[x]]

\* types.new_class(name, bases=(object,), exec_body=...) once exec_body has
\* filled the class namespace ns.
new_class(name, ns) == [class |-> name, dict |-> ns]

SeqsUpTo(S, n) == UNION {[1..k -> S] : k \in 0..n}

(***************************************************************************)
(* The type-transformer registry (into_dbus_python.xformers), as the       *)
(* invokers use it.  A signature is a string of single complete types.     *)
(***************************************************************************)
TypeCodes == {"s", "b"}

RECURSIVE Join(_)
\* "".join(ts)
Join(ts) == IF ts = <<>> THEN "" ELSE Head(ts) \o Join(Tail(ts))

\* The single complete types of a signature, in order.
ParseSignature(signature) ==
    CHOOSE ts \in SeqsUpTo(TypeCodes, Len(signature)) : Join(ts) = signature

\* xformers(signature): under the "function" contract one function from a
\* list of native values to a list of wire values; under the "list"
\* contract a list of functions, one per single complete type.
xformers(reg, signature) == [kind |-> reg, signature |-> signature]

\* A native value is [kind, val]; the wire value of type t made of it.
Wire(t, v) == [wire |-> t, val |-> v.val]

\* One element transformer applied to one native value.
xform_one(t, v) ==
    IF v.kind = t THEN [raised |-> NoError, value |-> Wire(t, v)]
    ELSE [raised |-> EncoderError, value |-> v]

\* The function the "function" contract returns, applied to a list.
xform_list(signature, objects) ==
    LET ts == ParseSignature(signature)
    IN  IF Len(ts) # Len(objects)
        THEN [raised |-> EncoderError, value |-> <<>>]
        ELSE IF \E i \in 1..Len(ts) : xform_one(ts[i], objects[i]).raised # NoError
        THEN [raised |-> EncoderError, value |-> <<>>]
        ELSE [raised |-> NoError,
              value |-> [i \in 1..Len(ts) |-> xform_one(ts[i], objects[i]).value]]

(***************************************************************************)
(* prop_builder.                                                           *)
(***************************************************************************)
Failed(exc) == [raised |-> exc]

\* A getter builder that looks the type up as the setter builder does.
build_property_getter_typed(interface_name, prop) ==
    IF ~HasAttr(prop, "name") THEN Failed(DPClientGenerationError)
    ELSE IF ~HasAttr(prop, "type") THEN Failed(DPClientGenerationError)
    ELSE [raised |-> NoError,
          func |-> [kind |-> "getter",
                    interface_name |-> interface_name,
                    name |-> prop.attrib["name"]]]

\* build_property_getter(spec), in the scope of interface_name.
build_property_getter(interface_name, prop) ==
    IF ~HasAttr(prop, "name") THEN Failed(DPClientGenerationError)
    ELSE [raised |-> NoError,
          func |-> [kind |-> "getter",
                    interface_name |-> interface_name,
                    name |-> prop.attrib["name"]]]

\* build_property_setter(spec), in the scope of interface_name.  The
\* subscript xformers(signature)[0] is a TypeError on a function.
build_property_setter(reg, interface_name, prop) ==
    IF ~HasAttr(prop, "name") THEN Failed(DPClientGenerationError)
    ELSE IF ~HasAttr(prop, "type") THEN Failed(DPClientGenerationError)
    ELSE LET signature == prop.attrib["type"]
             fs == xformers(reg, signature)
         IN  IF fs.kind # "list" THEN Failed(TypeError)
             ELSE [raised |-> NoError,
                   func |-> [kind |-> "setter",
                             interface_name |-> interface_name,
                             name |-> prop.attrib["name"],
                             xformer |-> ParseSignature(fs.signature)[1]]]

\* Branches that grant both accessors to "readwrite" alone, and Get to any
\* access they do not know.
prop_method_builder_strict(access, getter, setter) ==
    IF access = "write" THEN
        IF setter.raised # NoError THEN Failed(setter.raised)
        ELSE [raised |-> NoError, ns |-> Put(EmptyNs, "Set", setter.func)]
    ELSE IF access = "readwrite" THEN
        IF getter.raised # NoError THEN Failed(getter.raised)
        ELSE IF setter.raised # NoError THEN Failed(setter.raised)
        ELSE [raised |-> NoError,
              ns |-> Put(Put(EmptyNs, "Get", getter.func), "Set", setter.func)]
    ELSE
        IF getter.raised # NoError THEN Failed(getter.raised)
        ELSE [raised |-> NoError, ns |-> Put(EmptyNs, "Get", getter.func)]

\* The branches on access of the loop and the prop_method_builder each one
\* defines: the namespace of the property's class.
prop_method_builder(access, getter, setter) ==
    IF access = "read" THEN
        IF getter.raised # NoError THEN Failed(getter.raised)
        ELSE [raised |-> NoError, ns |-> Put(EmptyNs, "Get", getter.func)]
    ELSE IF access = "write" THEN
        IF setter.raised # NoError THEN Failed(setter.raised)
        ELSE [raised |-> NoError, ns |-> Put(EmptyNs, "Set", setter.func)]
    ELSE
        IF getter.raised # NoError THEN Failed(getter.raised)
        ELSE IF setter.raised # NoError THEN Failed(setter.raised)
        ELSE [raised |-> NoError,
              ns |-> Put(Put(EmptyNs, "Get", getter.func), "Set", setter.func)]

\* One iteration of "for prop in spec.findall('./property')": the class
\* built for prop, or the exception raised.
build_property(reg, interface_name, prop) ==
    IF ~HasAttr(prop, "access") THEN Failed(DPClientGenerationError)
    ELSE
    LET members ==
            prop_method_builder(prop.attrib["access"],
                build_property_getter(interface_name, prop),
                build_property_setter(reg, interface_name, prop))
    IN  IF members.raised # NoError THEN Failed(members.raised)
        ELSE IF ~HasAttr(prop, "name") THEN Failed(DPClientGenerationError)
        ELSE [raised |-> NoError,
              name |-> prop.attrib["name"],
              class |-> new_class(prop.attrib["name"], members.ns)]

RECURSIVE prop_loop(_, _, _, _)
\* The loop of prop_builder's builder over props, filling ns: the namespace
\* as the loop leaves it and the exception that ended it, if any.
prop_loop(reg, interface_name, props, ns) ==
    IF props = <<>> THEN [raised |-> NoError, ns |-> ns]
    ELSE LET r == build_property(reg, interface_name, Head(props))
         IN  IF r.raised # NoError THEN [raised |-> r.raised, ns |-> ns]
             ELSE prop_loop(reg, interface_name, Tail(props),
                            Put(ns, r.name, r.class))

\* prop_builder(spec)(namespace)
prop_builder(reg, ispec, ns) ==
    IF ~HasAttr(ispec, "name")
    THEN [raised |-> DPClientGenerationError, ns |-> ns]
    ELSE prop_loop(reg, ispec.attrib["name"], findall(ispec, "property"), ns)

(***************************************************************************)
(* method_builder.                                                         *)
(***************************************************************************)
\* build_method(spec), in the scope of interface_name.  The comprehensions
\* e.attrib["name"] and e.attrib["type"] over inargs are bare subscripts.
build_method(reg, interface_name, method) ==
    IF ~HasAttr(method, "name") THEN Failed(DPClientGenerationError)
    ELSE
    LET inargs == findall_inargs(method)
    IN  IF \E i \in 1..Len(inargs) : ~HasAttr(inargs[i], "name")
        THEN Failed(KeyError)
        ELSE IF \E i \in 1..Len(inargs) : ~HasAttr(inargs[i], "type")
        THEN Failed(KeyError)
        ELSE [raised |-> NoError,
              func |-> [kind |-> "method",
                        interface_name |-> interface_name,
                        name |-> method.attrib["name"],
                        arg_names |->
                            [i \in 1..Len(inargs) |-> inargs[i].attrib["name"]],
                        func |-> xformers(reg,
                            Join([i \in 1..Len(inargs) |->
                                     inargs[i].attrib["type"]]))]]

RECURSIVE method_loop(_, _, _, _)
\* The loop of method_builder's builder over methods, filling ns.
method_loop(reg, interface_name, methods, ns) ==
    IF methods = <<>> THEN [raised |-> NoError, ns |-> ns]
    ELSE IF ~HasAttr(Head(methods), "name")
    THEN [raised |-> DPClientGenerationError, ns |-> ns]
    ELSE LET r == build_method(reg, interface_name, Head(methods))
         IN  IF r.raised # NoError THEN [raised |-> r.raised, ns |-> ns]
             ELSE method_loop(reg, interface_name, Tail(methods),
                              Put(ns, Head(methods).attrib["name"], r.func))

\* method_builder(spec)(namespace)
method_builder(reg, ispec, ns) ==
    IF ~HasAttr(ispec, "name")
    THEN [raised |-> DPClientGenerationError, ns |-> ns]
    ELSE method_loop(reg, ispec.attrib["name"], findall(ispec, "method"), ns)

(***************************************************************************)
(* dbus_python_invoker_builder.  Methods and Properties are the two        *)
(* classes; the namespace holds a reference to each once it is made, and   *)
(* mns, pns are the class namespaces the two exec_body calls filled.       *)
(***************************************************************************)
\* A builder that makes Properties before Methods.
dbus_python_invoker_builder_swapped(reg, ispec, ns) ==
    LET p == prop_builder(reg, ispec, EmptyNs)
        ns1 == Put(ns, "Properties", "Properties")
        m == method_builder(reg, ispec, EmptyNs)
    IN  IF p.raised # NoError
        THEN [raised |-> p.raised, ns |-> ns, mns |-> EmptyNs, pns |-> p.ns]
        ELSE IF m.raised # NoError
        THEN [raised |-> m.raised, ns |-> ns1, mns |-> m.ns, pns |-> p.ns]
        ELSE [raised |-> NoError, ns |-> Put(ns1, "Methods", "Methods"),
              mns |-> m.ns, pns |-> p.ns]

dbus_python_invoker_builder(reg, ispec, ns) ==
    LET m == method_builder(reg, ispec, EmptyNs)
        ns1 == Put(ns, "Methods", "Methods")
        p == prop_builder(reg, ispec, EmptyNs)
    IN  IF m.raised # NoError
        THEN [raised |-> m.raised, ns |-> ns, mns |-> m.ns, pns |-> EmptyNs]
        ELSE IF p.raised # NoError
        THEN [raised |-> p.raised, ns |-> ns1, mns |-> m.ns, pns |-> p.ns]
        ELSE [raised |-> NoError, ns |-> Put(ns1, "Properties", "Properties"),
              mns |-> m.ns, pns |-> p.ns]

(***************************************************************************)
(* The generated invokers.  kwargs is the sequence of <<key, value>> pairs *)
(* in the order the caller supplied them (keys distinct); a proxy object   *)
(* is [has_method, raises]: whether getattr finds the operation, and       *)
(* whether the remote call raises.                                         *)
(***************************************************************************)
Reply == "reply"
NoReturn == "no return"

Keys(kwargs) == {kwargs[i][1] : i \in 1..Len(kwargs)}
Elems(s) == {s[i] : i \in 1..Len(s)}

\* arg_names.index(k)
index(arg_names, k) ==
    CHOOSE i \in 1..Len(arg_names) :
        /\ arg_names[i] = k
        /\ \A j \in 1..(i - 1) : arg_names[j] # k

\* item put into the sorted list s behind every item whose key is not larger
insert(s, item, arg_names) ==
    LET n == Cardinality({i \in 1..Len(s) :
                 index(arg_names, s[i][1]) <= index(arg_names, item[1])})
    IN  SubSeq(s, 1, n) \o <<item>> \o SubSeq(s, n + 1, Len(s))

RECURSIVE sorted(_, _)
\* sorted(kwargs.items(), key=lambda x: arg_names.index(x[0])), a stable sort
sorted(items, arg_names) ==
    IF items = <<>> THEN <<>>
    ELSE insert(sorted(SubSeq(items, 1, Len(items) - 1), arg_names),
                items[Len(items)], arg_names)

\* The outcome of one invocation: the exception raised, the value returned,
\* what the encoder was handed and the calls made on the proxy object.
Outcome(exc, ret, handed, xin, calls) ==
    [raised |-> exc, returned |-> ret, handed |-> handed,
     encoder_input |-> xin, transport |-> calls]

\* A remote call that is made again when it raises.
RemoteCall_retry(proxy, op, args, iface, handed, xin) ==
    LET call == [op |-> op, args |-> args, dbus_interface |-> iface]
    IN  IF proxy.raises
        THEN Outcome(DBusException, NoReturn, handed, xin, <<call, call>>)
        ELSE Outcome(NoError, Reply, handed, xin, <<call>>)

\* proxy_object.<op>(*args, dbus_interface=iface)
RemoteCall(proxy, op, args, iface, handed, xin) ==
    LET call == [op |-> op, args |-> args, dbus_interface |-> iface]
    IN  IF proxy.raises
        THEN Outcome(DBusException, NoReturn, handed, xin, <<call>>)
        ELSE Outcome(NoError, Reply, handed, xin, <<call>>)

\* A check of the names that refuses unknown keys only.
key_mismatch_unknown_only(arg_names, kwargs) ==
    ~(Keys(kwargs) \subseteq Elems(arg_names))

\* frozenset(arg_names) != frozenset(kwargs.keys())
key_mismatch(arg_names, kwargs) == Elems(arg_names) # Keys(kwargs)

\* The values in the order the keywords were supplied in.
marshal_as_supplied(arg_names, kwargs) ==
    [i \in 1..Len(kwargs) |-> kwargs[i][2]]

\* [v for (k, v) in sorted(kwargs.items(), key=...)]
marshal(arg_names, kwargs) ==
    LET items == sorted(kwargs, arg_names)
    IN  [i \in 1..Len(items) |-> items[i][2]]

\* dbus_func(proxy_object, **kwargs) of build_method
method_dbus_func(cl, proxy, kwargs) ==
    IF key_mismatch(cl.arg_names, kwargs)
    THEN Outcome(DPClientRuntimeError, NoReturn, FALSE, <<>>, <<>>)
    ELSE
    LET args == marshal(cl.arg_names, kwargs)
        xformed == xform_list(cl.func.signature, args)
    IN  IF cl.func.kind # "function"
        THEN Outcome(TypeError, NoReturn, FALSE, <<>>, <<>>)
        ELSE IF xformed.raised # NoError
        THEN Outcome(xformed.raised, NoReturn, TRUE, args, <<>>)
        ELSE IF ~proxy.has_method
        THEN Outcome(AttributeError, NoReturn, TRUE, args, <<>>)
        ELSE RemoteCall(proxy, cl.name, xformed.value, cl.interface_name,
                        TRUE, args)

\* Cells after a call that keeps the supplied names as arg_names.
cells_after_call_rebound(cl, kwargs) ==
    [cl EXCEPT !.arg_names = [i \in 1..Len(kwargs) |-> kwargs[i][1]]]

\* The cells of the method invoker's closure (interface_name, name,
\* arg_names, func) after a call: dbus_func binds none of them, and
\* frozenset, index and sorted leave arg_names as it is.
cells_after_call(cl, kwargs) == cl

\* dbus_func(proxy_object) of build_property_getter
getter_dbus_func(cl, proxy) ==
    IF ~proxy.has_method
    THEN Outcome(AttributeError, NoReturn, FALSE, <<>>, <<>>)
    ELSE RemoteCall(proxy, "Get", <<cl.interface_name, cl.name>>,
                    PROPERTIES_IFACE, FALSE, <<>>)

\* dbus_func(proxy_object, value) of build_property_setter
setter_dbus_func(cl, proxy, value) ==
    LET xformed == xform_one(cl.xformer, value)
    IN  IF ~proxy.has_method
        THEN Outcome(AttributeError, NoReturn, FALSE, <<>>, <<>>)
        ELSE IF xformed.raised # NoError
        THEN Outcome(xformed.raised, NoReturn, TRUE, <<value>>, <<>>)
        ELSE RemoteCall(proxy, "Set",
                        <<cl.interface_name, cl.name, xformed.value>>,
                        PROPERTIES_IFACE, TRUE, <<value>>)

(***************************************************************************)
(* The inputs.                                                             *)
(***************************************************************************)
Registries == {"function", "list"}
InterfaceNames == {NoAttr, "org.I"}

Arg(name, type, direction) ==
    Element("arg",
            Attrs({<<"name", name>>, <<"type", type>>,
                   <<"direction", direction>>}),
            <<>>)

Method(name, args) == Element("method", Attrs({<<"name", name>>}), args)

Property(name, type, access) ==
    Element("property",
            Attrs({<<"name", name>>, <<"type", type>>, <<"access", access>>}),
            <<>>)

Interface(name, methods, props) ==
    Element("interface", Attrs({<<"name", name>>}), methods \o props)

\* The arg elements of a method: inbound ones, whose name and type may be
\* missing, and outbound ones, whose name may be missing.
ArgPool ==
    {Arg(n, t, "in") : n \in {NoAttr, "a", "b"}, t \in {NoAttr, "s", "b"}}
    \cup {Arg(n, "s", "out") : n \in {NoAttr, "r"}}

MethodPool ==
    {Method(n, args) : n \in {NoAttr, "M"}, args \in SeqsUpTo(ArgPool, MaxArgs)}

PropertyPool ==
    {Property(n, t, a) : n \in {NoAttr, "P", "Q"}, t \in {NoAttr, "s"},
                         a \in {NoAttr, "read", "write", "readwrite", "rw"}}

\* The smaller pools of the interfaces with several methods and properties.
InterfaceMethodPool ==
    {Method(n, args) : n \in {NoAttr, "M", "N"},
                       args \in {<<>>, <<Arg("a", "s", "in")>>,
                                 <<Arg(NoAttr, "s", "in")>>}}

InterfacePropertyPool ==
    {Property(n, "s", a) : n \in {NoAttr, "P", "Q"}, a \in {"read", "write"}}

Values == {[kind |-> "s", val |-> "x"], [kind |-> "s", val |-> "y"],
           [kind |-> "b", val |-> "t"]}

\* The keywords a caller may use: the names the pool's inbound arguments
\* go by, so that each is undeclared by some method.
KwargKeys == {"a", "b"}

\* Keyword arguments, in every order of supply: the keys are distinct.
KwargsPool ==
    {kw \in SeqsUpTo(KwargKeys \X Values, Cardinality(KwargKeys)) :
        \A i, j \in 1..Len(kw) : i # j => kw[i][1] # kw[j][1]}

Proxies == {[has_method |-> FALSE, raises |-> FALSE],
            [has_method |-> TRUE, raises |-> FALSE],
            [has_method |-> TRUE, raises |-> TRUE]}

(***************************************************************************)
(* The state machine.                                                      *)
(***************************************************************************)
InitRest ==
    /\ registry \in Registries
    /\ namespace = EmptyNs
    /\ methods_ns = EmptyNs
    /\ props_ns = EmptyNs
    /\ pc = "start"
    /\ raised = NoError
    /\ last_call = NoCall
    /\ mismatch_seen = FALSE

\* An interface of one method.
InitMethod ==
    /\ spec \in {Interface(n, <<m>>, <<>>) : n \in InterfaceNames, m \in MethodPool}
    /\ InitRest

\* An interface of properties.
InitProp ==
    /\ spec \in {Interface(n, <<>>, ps) :
                    n \in InterfaceNames, ps \in SeqsUpTo(PropertyPool, MaxProps)}
    /\ InitRest

\* An interface of methods and properties.
Init ==
    /\ spec \in {Interface(n, ms, ps) :
                    n \in InterfaceNames,
                    ms \in SeqsUpTo(InterfaceMethodPool, MaxMethods),
                    ps \in SeqsUpTo(InterfacePropertyPool, MaxProps)}
    /\ InitRest

Finish(exc) ==
    /\ raised' = exc
    /\ pc' = IF exc = NoError THEN "built" ELSE "failed"

\* types.new_class("Methods", bases=(object,), exec_body=method_builder(spec))
BuildMethods ==
    /\ pc = "start"
    /\ LET r == method_builder(registry, spec, methods_ns)
       IN  /\ methods_ns' = r.ns
           /\ Finish(r.raised)
    /\ UNCHANGED <<registry, spec, namespace, props_ns, last_call, mismatch_seen>>

\* types.new_class("Properties", bases=(object,), exec_body=prop_builder(spec))
BuildProperties ==
    /\ pc = "start"
    /\ LET r == prop_builder(registry, spec, props_ns)
       IN  /\ props_ns' = r.ns
           /\ Finish(r.raised)
    /\ UNCHANGED <<registry, spec, namespace, methods_ns, last_call, mismatch_seen>>

\* dbus_python_invoker_builder(spec)(namespace)
Build ==
    /\ pc = "start"
    /\ LET r == dbus_python_invoker_builder(registry, spec, namespace)
       IN  /\ namespace' = r.ns
           /\ methods_ns' = r.mns
           /\ props_ns' = r.pns
           /\ Finish(r.raised)
    /\ UNCHANGED <<registry, spec, last_call, mismatch_seen>>

Called(kind, name, input, proxy, r) ==
    [kind |-> kind, name |-> name, input |-> input, proxy |-> proxy,
     raised |-> r.raised, returned |-> r.returned, handed |-> r.handed,
     encoder_input |-> r.encoder_input, transport |-> r.transport]

\* Methods.<name>(proxy_object, **kwargs)
CallMethod ==
    /\ pc = "built"
    /\ \E name \in DOMAIN methods_ns, kwargs \in KwargsPool, proxy \in Proxies :
          LET r == method_dbus_func(methods_ns[name], proxy, kwargs)
          IN  /\ last_call' = Called("method", name, kwargs, proxy, r)
              /\ methods_ns' = [methods_ns EXCEPT
                    ![name] = cells_after_call(methods_ns[name], kwargs)]
              /\ mismatch_seen' =
                    (mismatch_seen \/ r.raised = DPClientRuntimeError)
    /\ UNCHANGED <<registry, spec, namespace, props_ns, pc, raised>>

\* Properties.<name>.Get(proxy_object)
CallGet ==
    /\ pc = "built"
    /\ \E name \in DOMAIN props_ns, proxy \in Proxies :
          /\ "Get" \in DOMAIN props_ns[name].dict
          /\ LET r == getter_dbus_func(props_ns[name].dict["Get"], proxy)
             IN  last_call' = Called("get", name, <<>>, proxy, r)
    /\ UNCHANGED <<registry, spec, namespace, methods_ns, props_ns, pc, raised,
                   mismatch_seen>>

\* Properties.<name>.Set(proxy_object, value)
CallSet ==
    /\ pc = "built"
    /\ \E name \in DOMAIN props_ns, value \in Values, proxy \in Proxies :
          /\ "Set" \in DOMAIN props_ns[name].dict
          /\ LET r == setter_dbus_func(props_ns[name].dict["Set"], proxy, value)
             IN  last_call' = Called("set", name, <<value>>, proxy, r)
    /\ UNCHANGED <<registry, spec, namespace, methods_ns, props_ns, pc, raised,
                   mismatch_seen>>

NextMethod == BuildMethods \/ CallMethod
NextProp == BuildProperties \/ CallGet \/ CallSet
Next == Build

SpecMethod == InitMethod /\ [][NextMethod]_vars
SpecProp == InitProp /\ [][NextProp]_vars
Spec == Init /\ [][Next]_vars

(***************************************************************************)
(* What the properties below read off the interface specification.         *)
(***************************************************************************)
DeclaredMethods == findall(spec, "method")
DeclaredProperties == findall(spec, "property")

\* The last element of elems declared under the name n.
LastNamed(elems, n) ==
    LET at == {i \in 1..Len(elems) :
                  HasAttr(elems[i], "name") /\ elems[i].attrib["name"] = n}
    IN  elems[CHOOSE i \in at : \A j \in at : j <= i]

\* The inbound argument definitions of the method the last call went to.
CalledInArgs == findall_inargs(LastNamed(DeclaredMethods, last_call.name))
CalledInNames == [i \in 1..Len(CalledInArgs) |-> CalledInArgs[i].attrib["name"]]

\* The value the last call supplied under the keyword k.
Supplied(k) ==
    LET kw == last_call.input
    IN  kw[CHOOSE i \in 1..Len(kw) : kw[i][1] = k][2]

MethodCalled == last_call.kind = "method"
ExactNames == MethodCalled /\ Keys(last_call.input) = Elems(CalledInNames)
Dispatched == MethodCalled /\ last_call.transport # <<>>

\* s without the repetitions of an element after its first occurrence
FirstOccurrences(s) ==
    LET keep == {i \in 1..Len(s) : \A j \in 1..(i - 1) : s[j] # s[i]}
        nth(k) == CHOOSE i \in keep : Cardinality({j \in keep : j <= i}) = k
    IN  [k \in 1..Cardinality(keep) |-> s[nth(k)]]

\* The dispatch of the values vs to the called method.
DispatchOf(vs) ==
    [op |-> last_call.name,
     args |-> [i \in 1..Len(vs) |-> Wire(CalledInArgs[i].attrib["type"], vs[i])],
     dbus_interface |-> spec.attrib["name"]]

(***************************************************************************)
(* C1: a method call whose keyword names are not exactly the set of the    *)
(* method's declared inbound argument names raises DPClientRuntimeError    *)
(* and makes no call on the connection.                                    *)
(***************************************************************************)
C1_KeyMismatchRaises ==
    (MethodCalled /\ ~ExactNames) =>
        /\ last_call.raised = DPClientRuntimeError
        /\ last_call.transport = <<>>
        /\ ~last_call.handed

\* A call with a key too many, one with a key missing and one with a key
\* replaced are all among the mismatches; this one has a key too many.
C1_Witness ==
    /\ MethodCalled
    /\ Elems(CalledInNames) # {}
    /\ Elems(CalledInNames) \subseteq Keys(last_call.input)
    /\ Keys(last_call.input) # Elems(CalledInNames)
    /\ last_call.raised = DPClientRuntimeError

(***************************************************************************)
(* C2, as claimed: on a call with exactly the declared names the encoder   *)
(* is handed one value per declared inbound argument, the value supplied   *)
(* under that argument's name, in declared order.                          *)
(***************************************************************************)
C2_OnePerDeclaredArg ==
    (ExactNames /\ last_call.handed) =>
        last_call.encoder_input =
            [i \in 1..Len(CalledInNames) |-> Supplied(CalledInNames[i])]

(***************************************************************************)
(* C2, amended: on a call with exactly the declared names the encoder is   *)
(* handed one value per distinct declared inbound name, the value supplied *)
(* under it, in the order of the names' first declaration (one per         *)
(* declared inbound argument when the names are pairwise distinct); what   *)
(* is dispatched is these values encoded, under the method's name and the  *)
(* interface's name, whatever the order the keywords were supplied in.     *)
(***************************************************************************)
C2_DeclaredOrder ==
    /\ (ExactNames /\ last_call.handed) =>
          LET names == FirstOccurrences(CalledInNames)
          IN  /\ last_call.encoder_input =
                    [i \in 1..Len(names) |-> Supplied(names[i])]
              /\ (names = CalledInNames) =>
                    Len(last_call.encoder_input) = Len(CalledInArgs)
    /\ Dispatched =>
          /\ ExactNames /\ last_call.handed
          /\ last_call.transport = <<DispatchOf(last_call.encoder_input)>>

\* Two inbound arguments around an order of supply that is not the declared
\* one, dispatched.
C2_Witness ==
    /\ Dispatched
    /\ Len(CalledInNames) = 2
    /\ last_call.input[1][1] = CalledInNames[2]
    /\ last_call.input[2][1] = CalledInNames[1]
    /\ last_call.transport[1].args[1].val = last_call.input[2][2].val
    /\ last_call.transport[1].args[1] # last_call.transport[1].args[2]

(***************************************************************************)
(* C8, as claimed: a method call either calls the remote operation once    *)
(* and returns its result or error, or does not call it and raises         *)
(* DPClientRuntimeError (here with the registry returning a function, as   *)
(* the method invoker calls it).                                           *)
(***************************************************************************)
C8_TwoOutcomes ==
    (MethodCalled /\ registry = "function") =>
        \/ /\ Len(last_call.transport) = 1
           /\ last_call.raised \in {NoError, DBusException}
        \/ /\ last_call.transport = <<>>
           /\ last_call.raised = DPClientRuntimeError

(***************************************************************************)
(* C8, amended: a method call makes at most one call on the connection.    *)
(* If it makes one, the names matched and the call's result or error is    *)
(* returned as it is.  If it makes none, it raises DPClientRuntimeError    *)
(* exactly when the names did not match, and otherwise the error of the    *)
(* encoder (or of calling what the registry returned) or of the lookup of  *)
(* the operation on the connection, unchanged.                             *)
(***************************************************************************)
C8_Outcomes ==
    MethodCalled =>
        /\ Len(last_call.transport) <= 1
        /\ Len(last_call.transport) = 1 =>
              /\ ExactNames
              /\ last_call.proxy.has_method
              /\ last_call.raised =
                    (IF last_call.proxy.raises THEN DBusException ELSE NoError)
              /\ last_call.returned =
                    (IF last_call.proxy.raises THEN NoReturn ELSE Reply)
        /\ last_call.transport = <<>> =>
              /\ last_call.returned = NoReturn
              /\ last_call.raised \in
                    {DPClientRuntimeError, TypeError, EncoderError, AttributeError}
              /\ (last_call.raised = DPClientRuntimeError) <=> ~ExactNames
              /\ (last_call.raised = TypeError) => registry = "list"
              /\ (last_call.raised = AttributeError) => ~last_call.proxy.has_method

\* The encoder refuses the values: no call, and no DPClientRuntimeError.
C8_Witness ==
    /\ ExactNames
    /\ last_call.handed
    /\ last_call.raised = EncoderError
    /\ last_call.transport = <<>>

\* The method invokers a build of the same specification makes.
FreshMethods == method_builder(registry, spec, EmptyNs).ns

LacksArgName(m) ==
    \E i \in 1..Len(m.children) :
        m.children[i].tag = "arg" /\ ~HasAttr(m.children[i], "name")

(***************************************************************************)
(* C4, as claimed: building a method invoker raises                        *)
(* DPClientGenerationError whenever the method definition or one of its    *)
(* argument definitions has no name.                                       *)
(***************************************************************************)
C4_GenerationErrorOnMissingName ==
    (pc # "start" /\ \E i \in 1..Len(DeclaredMethods) :
                        \/ ~HasAttr(DeclaredMethods[i], "name")
                        \/ LacksArgName(DeclaredMethods[i]))
    => (pc = "failed" /\ raised = DPClientGenerationError)

(***************************************************************************)
(* Properties: what a definition lacks, and which accessors its access     *)
(* grants.                                                                 *)
(***************************************************************************)
Named == HasAttr(spec, "name")

\* The property lacks one of name, type, access.
Incomplete(p) ==
    ~HasAttr(p, "name") \/ ~HasAttr(p, "type") \/ ~HasAttr(p, "access")

\* The property lacks what its accessors are built from: name, access, and
\* type unless its access is exactly "read".
Deficient(p) ==
    \/ ~HasAttr(p, "access")
    \/ ~HasAttr(p, "name")
    \/ (~HasAttr(p, "type") /\ p.attrib["access"] # "read")

GrantsSet(p) == HasAttr(p, "access") /\ p.attrib["access"] # "read"

\* The class of the property gets built: nothing is lacking, and a setter
\* is built only from a registry whose result can be subscripted.
Buildable(p) == ~Deficient(p) /\ (GrantsSet(p) => registry = "list")

Gate(access) ==
    IF access = "read" THEN {"Get"}
    ELSE IF access = "write" THEN {"Set"}
    ELSE {"Get", "Set"}

NamesOf(elems, k) == {elems[j].attrib["name"] : j \in 1..k}

(***************************************************************************)
(* C3: a property invoker that was built exposes only Get when the access  *)
(* is exactly "read", only Set when it is exactly "write", and both for    *)
(* every other access value; so it exposes at least one of them.           *)
(***************************************************************************)
C3_AccessGating ==
    pc = "built" =>
        \A n \in DOMAIN props_ns :
            /\ DOMAIN props_ns[n].dict =
                  Gate(LastNamed(DeclaredProperties, n).attrib["access"])
            /\ DOMAIN props_ns[n].dict # {}

\* One property of access "write" and one of an access that is neither
\* "read", "write" nor "readwrite", both built.
C3_Witness ==
    /\ pc = "built"
    /\ \E n, m \in DOMAIN props_ns :
          /\ LastNamed(DeclaredProperties, n).attrib["access"] = "write"
          /\ DOMAIN props_ns[n].dict = {"Set"}
          /\ LastNamed(DeclaredProperties, m).attrib["access"] = "rw"
          /\ DOMAIN props_ns[m].dict = {"Get", "Set"}

(***************************************************************************)
(* C5, as claimed: the first property that lacks name, type or access      *)
(* ends the build with DPClientGenerationError, and no invoker is made     *)
(* for it, whatever its access.                                            *)
(***************************************************************************)
C5_IncompleteFails ==
    (pc # "start" /\ Named) =>
        \A i \in 1..Len(DeclaredProperties) :
            (/\ Incomplete(DeclaredProperties[i])
             /\ \A j \in 1..(i - 1) : Buildable(DeclaredProperties[j]))
            => /\ pc = "failed"
               /\ raised = DPClientGenerationError
               /\ DOMAIN props_ns = NamesOf(DeclaredProperties, i - 1)

(***************************************************************************)
(* C5, amended: the first property that lacks name or access, or that      *)
(* lacks type while its access is anything but exactly "read", ends the    *)
(* build with DPClientGenerationError, and no invoker is made for it; a    *)
(* property of access "read" that has a name is built without a type.      *)
(***************************************************************************)
C5_DeficientFails ==
    (pc # "start" /\ Named) =>
        \A i \in 1..Len(DeclaredProperties) :
            (\A j \in 1..(i - 1) : Buildable(DeclaredProperties[j])) =>
                LET p == DeclaredProperties[i]
                IN  /\ Deficient(p) =>
                          /\ pc = "failed"
                          /\ raised = DPClientGenerationError
                          /\ DOMAIN props_ns = NamesOf(DeclaredProperties, i - 1)
                    /\ (~Deficient(p) /\ p.attrib["access"] = "read") =>
                          /\ p.attrib["name"] \in DOMAIN props_ns
                          /\ i = Len(DeclaredProperties) => pc = "built"

\* A property of another access than "read" and "write" that lacks its type
\* fails after a property that was built.
C5_Witness ==
    /\ pc = "failed"
    /\ raised = DPClientGenerationError
    /\ Len(DeclaredProperties) = 2
    /\ props_ns # EmptyNs
    /\ LET p == DeclaredProperties[2]
       IN  /\ HasAttr(p, "access") /\ p.attrib["access"] = "rw"
           /\ HasAttr(p, "name")
           /\ ~HasAttr(p, "type")

(***************************************************************************)
(* C10, as claimed: with the registry returning, for a signature, one      *)
(* function from a list of values to a list of values, the setter of a     *)
(* property that grants Set is generated; and a Set call that returns has  *)
(* made one call of the connection's property-set operation with the       *)
(* interface name, the property name and the encoded value.                *)
(***************************************************************************)
C10_SetterGenerated ==
    /\ (/\ pc # "start"
        /\ registry = "function"
        /\ Named
        /\ \A i \in 1..Len(DeclaredProperties) :
              ~Incomplete(DeclaredProperties[i]))
       => (pc = "built" /\ raised = NoError)
    /\ (last_call.kind = "set" /\ last_call.raised = NoError) =>
          last_call.transport =
             <<[op |-> "Set",
                args |-> <<spec.attrib["name"], last_call.name,
                           Wire(LastNamed(DeclaredProperties,
                                          last_call.name).attrib["type"],
                                last_call.input[1])>>,
                dbus_interface |-> PROPERTIES_IFACE]>>

(***************************************************************************)
(* Interfaces: the definitions that build.                                 *)
(***************************************************************************)
MethodOk(m) ==
    /\ HasAttr(m, "name")
    /\ \A i \in 1..Len(findall_inargs(m)) :
          /\ HasAttr(findall_inargs(m)[i], "name")
          /\ HasAttr(findall_inargs(m)[i], "type")

\* How many definitions at the head of elems build.
MethodsBuilt ==
    CHOOSE k \in 0..Len(DeclaredMethods) :
        /\ \A j \in 1..k : MethodOk(DeclaredMethods[j])
        /\ k < Len(DeclaredMethods) => ~MethodOk(DeclaredMethods[k + 1])

PropertiesBuilt ==
    CHOOSE k \in 0..Len(DeclaredProperties) :
        /\ \A j \in 1..k : Buildable(DeclaredProperties[j])
        /\ k < Len(DeclaredProperties) => ~Buildable(DeclaredProperties[k + 1])

AllMethodsBuilt == Named /\ MethodsBuilt = Len(DeclaredMethods)

(***************************************************************************)
(* C6, as claimed: when the build of an interface invoker fails, the       *)
(* namespaces being filled hold nothing of what was built before the       *)
(* failure.                                                                *)
(***************************************************************************)
C6_NothingRetained ==
    pc = "failed" =>
        /\ namespace = EmptyNs
        /\ methods_ns = EmptyNs
        /\ props_ns = EmptyNs

(***************************************************************************)
(* C6, amended: when the build of an interface invoker fails, the builder  *)
(* raises and never binds Properties; it has bound Methods exactly when    *)
(* every method was built (the failure is a property's); and the class     *)
(* namespaces hold the entries of the definitions declared before the      *)
(* first one that fails, and none for that one or a later one.             *)
(***************************************************************************)
C6_PrefixRetained ==
    pc = "failed" =>
        /\ raised # NoError
        /\ "Properties" \notin DOMAIN namespace
        /\ ("Methods" \in DOMAIN namespace) <=> AllMethodsBuilt
        /\ DOMAIN methods_ns =
              (IF Named THEN NamesOf(DeclaredMethods, MethodsBuilt) ELSE {})
        /\ DOMAIN props_ns =
              (IF AllMethodsBuilt
               THEN NamesOf(DeclaredProperties, PropertiesBuilt) ELSE {})
        /\ AllMethodsBuilt => PropertiesBuilt < Len(DeclaredProperties)

\* The second property fails after the methods and the first property were
\* built.
C6_Witness ==
    /\ pc = "failed"
    /\ "Methods" \in DOMAIN namespace
    /\ methods_ns # EmptyNs
    /\ props_ns # EmptyNs

\* The names of the inbound arguments of m, in declared order.
InNames(m) ==
    [i \in 1..Len(findall_inargs(m)) |-> findall_inargs(m)[i].attrib["name"]]

\* The entry under n is the method invoker built from the definition m.
MethodEntryOf(n, m) ==
    /\ n \in DOMAIN methods_ns
    /\ methods_ns[n].name = n
    /\ methods_ns[n].interface_name = spec.attrib["name"]
    /\ methods_ns[n].arg_names = InNames(m)

\* The entry under n is the property invoker built from the definition p.
PropertyEntryOf(n, p) ==
    /\ n \in DOMAIN props_ns
    /\ props_ns[n].class = n
    /\ DOMAIN props_ns[n].dict = Gate(p.attrib["access"])
    /\ \A a \in DOMAIN props_ns[n].dict :
          /\ props_ns[n].dict[a].name = n
          /\ props_ns[n].dict[a].interface_name = spec.attrib["name"]

(***************************************************************************)
(* C7, as claimed: after a successful build there is one entry per         *)
(* declared method and one per declared property, under its name, built    *)
(* from that definition.                                                   *)
(***************************************************************************)
C7_OneEntryPerDefinition ==
    pc = "built" =>
        /\ Cardinality(DOMAIN methods_ns) = Len(DeclaredMethods)
        /\ Cardinality(DOMAIN props_ns) = Len(DeclaredProperties)
        /\ \A i \in 1..Len(DeclaredMethods) :
              MethodEntryOf(DeclaredMethods[i].attrib["name"], DeclaredMethods[i])
        /\ \A i \in 1..Len(DeclaredProperties) :
              PropertyEntryOf(DeclaredProperties[i].attrib["name"],
                              DeclaredProperties[i])

(***************************************************************************)
(* C7, amended: after a successful build there is one entry per distinct   *)
(* declared method name and one per distinct declared property name, each  *)
(* built from the last definition declared under that name; the number of  *)
(* entries is the number of definitions when the names are distinct.       *)
(***************************************************************************)
C7_OneEntryPerName ==
    pc = "built" =>
        /\ DOMAIN methods_ns = NamesOf(DeclaredMethods, Len(DeclaredMethods))
        /\ DOMAIN props_ns = NamesOf(DeclaredProperties, Len(DeclaredProperties))
        /\ \A n \in DOMAIN methods_ns :
              MethodEntryOf(n, LastNamed(DeclaredMethods, n))
        /\ \A n \in DOMAIN props_ns :
              PropertyEntryOf(n, LastNamed(DeclaredProperties, n))
        /\ namespace = [Methods |-> "Methods", Properties |-> "Properties"]

\* Two methods of one name and different inbound arguments, two properties
\* of one name and different access.
C7_Witness ==
    /\ pc = "built"
    /\ Len(DeclaredMethods) = 2
    /\ Cardinality(DOMAIN methods_ns) = 1
    /\ InNames(DeclaredMethods[1]) # InNames(DeclaredMethods[2])
    /\ Len(DeclaredProperties) = 2
    /\ Cardinality(DOMAIN props_ns) = 1
    /\ DeclaredProperties[1].attrib["access"] # DeclaredProperties[2].attrib["access"]

====
